---- MODULE Spec2Model ----
(***************************************************************************)
(* GPU launch-configuration calculator of                                  *)
(* tensorflow/core/util/gpu_launch_config.h.                                *)
(*                                                                         *)
(* Every entry point is a pure function of its arguments, of the device's  *)
(* reported capabilities and of the answer of the occupancy query.  A      *)
(* behaviour of the model is one call: Init draws the call and the device, *)
(* the action of the called entry point runs the whole function and ends   *)
(* in pc = "returned" (a configuration is returned) or pc = "fatal" (a     *)
(* CHECK failed or the arithmetic trapped).                                 *)
(*                                                                         *)
(* The code computes in C++ int (32 bit, signed).  Signed overflow and     *)
(* division by zero are undefined behaviour; the model keeps the outcomes  *)
(* the builds produce: an overflow wraps (two's complement) or traps       *)
(* (-ftrapv, sanitizers); a division by zero traps (x86 #DE) or yields 0   *)
(* (AArch64 sdiv).  The choice is made per call (UBOutcomes).              *)
(*                                                                         *)
(* The kernel (func), dynamic_shared_memory_size and block_size_limit only  *)
(* feed the occupancy query, whose answer is the environment's choice.      *)
(*                                                                         *)
(* dim3 components are unsigned int in the code; the model stores the      *)
(* 32-bit pattern read as a signed int, so a negative component stands for *)
(* an unsigned value above 2^31 - 1.                                        *)
(***************************************************************************)
EXTENDS Integers, Sequences, FiniteSets, TLC

VARIABLES backend, dev, call, pc, occ, ub, queries, config

vars == <<backend, dev, call, pc, occ, ub, queries, config>>

-----------------------------------------------------------------------------
(* Bounds of the model *)

\* small extents and work counts range over -1 .. MaxDim
MaxDim == 3
\* small occupancy answers range over 1 .. MaxOcc
MaxOcc == 2

-----------------------------------------------------------------------------
(* C++ int arithmetic *)

IntMax == 2147483647
IntMin == -IntMax - 1

Abs(a) == IF a < 0 THEN -a ELSE a

Min(a, b) == IF b < a THEN b ELSE a
Max(a, b) == IF a < b THEN b ELSE a
Min3(a, b, c) == Min(Min(a, b), c)

\* a + b leaves the int range
AddOvf(a, b) == IF b >= 0 THEN a > IntMax - b ELSE a < IntMin - b

\* a + b modulo 2^32, read as a signed int
Add32(a, b) ==
  IF ~AddOvf(a, b) THEN a + b
  ELSE IF b >= 0 THEN (a - IntMax - 1) + (b - IntMax - 1)
  ELSE (a + IntMax + 1) + (b + IntMax + 1)

\* a * b leaves the int range
MulOvf(a, b) ==
  /\ a # 0
  /\ b # 0
  /\ IF a = IntMin \/ b = IntMin THEN ~(a = 1 \/ b = 1)
     ELSE LET m == Abs(a)
              n == Abs(b)
          IN  /\ m > IntMax \div n
              /\ ~( (a < 0) # (b < 0) /\ IntMax \div n = m - 1 /\ IntMax % n = n - 1 )

\* the product of two 16-bit limbs x and y modulo 2^16, and its carry
MulLo16(x, y) ==
  ((x * (y % 256)) + ((x * (y \div 256)) % 256) * 256) % 65536

MulCarry16(x, y) == (((x * (y % 256)) \div 256) + x * (y \div 256)) \div 256

\* a * b modulo 2^32, read as a signed int
Mul32(a, b) ==
  IF ~MulOvf(a, b) THEN a * b
  ELSE LET al == a % 65536
           ah == (a \div 65536) % 65536
           bl == b % 65536
           bh == (b \div 65536) % 65536
           lo == MulLo16(al, bl)
           hi == (MulCarry16(al, bl) + MulLo16(al, bh) + MulLo16(ah, bl)) % 65536
       IN  IF hi >= 32768 THEN (hi - 65536) * 65536 + lo ELSE hi * 65536 + lo

\* C++ a / b for b # 0: the quotient truncated towards zero
TruncDiv(a, b) ==
  LET q == a \div b
  IN  IF a % Abs(b) # 0 /\ ((a < 0) # (b < 0)) THEN q + 1 ELSE q

\* a / b as the call goes on with it: 0 stands for the quotient of a division
\* by zero that did not trap
Div32(a, b) ==
  IF b = 0 THEN 0
  ELSE IF b = IntMin THEN (IF a = IntMin THEN 1 ELSE 0)
  ELSE IF a = IntMin /\ b = -1 THEN IntMin
  ELSE TruncDiv(a, b)

-----------------------------------------------------------------------------
(* DivUp *)

\* inline int DivUp(int a, int b) { return (a + b - 1) / b; }
DivUp(a, b) == Div32(Add32(Add32(a, b), -1), b)

\* (a + b) or (a + b) - 1 overflows
DivUpOvf(a, b) == AddOvf(a, b) \/ AddOvf(Add32(a, b), -1)

-----------------------------------------------------------------------------
(* The outcome of one call *)

NoConfig == [virtual_thread_count |-> "none"]

\* the function returned cfg after issuing the queries q; overflow and divzero
\* tell whether a step of that computation had undefined behaviour
Ret(cfg, q, ovf, dz) ==
  [status |-> "returned", config |-> cfg, queries |-> q,
   overflow |-> ovf, divzero |-> dz]

\* a CHECK_* failed after the queries q: LOG(FATAL), the process aborts
Fatal(q) ==
  [status |-> "fatal", config |-> NoConfig, queries |-> q,
   overflow |-> FALSE, divzero |-> FALSE]

\* CHECK_GT taken for CHECK_GE: a count of 0 passes
CHECK_GE(a, b) == a >= b

CHECK_GT(a, b) == a > b

CHECK_EQ(a, b) == a = b

-----------------------------------------------------------------------------
(* struct GpuLaunchConfig and the 1D entry points *)

GpuLaunchConfig(v, t, b) ==
  [virtual_thread_count |-> v, thread_per_block |-> t, block_count |-> b]

\* GetGpuLaunchConfig without the cap of block_count at the multiprocessor
\* count
GetGpuLaunchConfig_NoCap(work_element_count, d) ==
  IF ~(work_element_count > 0) THEN Fatal(<<>>)
  ELSE
    LET physical_thread_count ==
          Min(Mul32(d.NumMultiProcessors, d.maxThreadsPerMultiProcessor),
              work_element_count)
        thread_per_block == Min(1024, d.maxThreadsPerBlock)
        block_count == DivUp(physical_thread_count, thread_per_block)
    IN  Ret(GpuLaunchConfig(work_element_count, thread_per_block, block_count),
            <<"getNumMultiProcessors", "maxThreadsPerMultiProcessor",
              "maxThreadsPerBlock">>,
            \/ MulOvf(d.NumMultiProcessors, d.maxThreadsPerMultiProcessor)
            \/ DivUpOvf(physical_thread_count, thread_per_block),
            thread_per_block = 0)

\* GetGpuLaunchConfig(int work_element_count, const Eigen::GpuDevice& d):
\* the CUDA and the ROCm branch are the same computation
GetGpuLaunchConfig(work_element_count, d) ==
  IF ~CHECK_GT(work_element_count, 0) THEN Fatal(<<>>)
  ELSE
    LET virtual_thread_count == work_element_count
        physical_thread_count ==
          Min(Mul32(d.NumMultiProcessors, d.maxThreadsPerMultiProcessor),
              virtual_thread_count)
        thread_per_block == Min(1024, d.maxThreadsPerBlock)
        block_count ==
          Min(DivUp(physical_thread_count, thread_per_block),
              d.NumMultiProcessors)
    IN  Ret(GpuLaunchConfig(virtual_thread_count, thread_per_block, block_count),
            <<"getNumMultiProcessors", "maxThreadsPerMultiProcessor",
              "maxThreadsPerBlock">>,
            \/ MulOvf(d.NumMultiProcessors, d.maxThreadsPerMultiProcessor)
            \/ DivUpOvf(physical_thread_count, thread_per_block),
            thread_per_block = 0)

\* GetGpuLaunchConfig(work_element_count, d, func, dynamic_shared_memory_size,
\* block_size_limit); o is the answer of cudaOccupancyMaxPotentialBlockSize
\* (read under CUDA only: the ROCm branch issues no occupancy query)
GetGpuLaunchConfigOcc(work_element_count, d, be, o) ==
  IF ~CHECK_GT(work_element_count, 0) THEN Fatal(<<>>)
  ELSE IF be = "CUDA" THEN
    IF ~CHECK_EQ(o.err, "cudaSuccess")
    THEN Fatal(<<"OccupancyMaxPotentialBlockSize">>)
    ELSE
      LET thread_per_block == o.thread_per_block
          block_count ==
            Min(o.block_count, DivUp(work_element_count, thread_per_block))
      IN  Ret(GpuLaunchConfig(work_element_count, thread_per_block, block_count),
              <<"OccupancyMaxPotentialBlockSize">>,
              DivUpOvf(work_element_count, thread_per_block),
              thread_per_block = 0)
  ELSE
    LET physical_thread_count ==
          Min(Mul32(d.NumMultiProcessors, d.maxThreadsPerMultiProcessor),
              work_element_count)
        thread_per_block == Min(1024, d.maxThreadsPerBlock)
        block_count0 ==
          Min(DivUp(physical_thread_count, thread_per_block),
              d.NumMultiProcessors)
        block_count ==
          Min(block_count0, DivUp(work_element_count, thread_per_block))
    IN  Ret(GpuLaunchConfig(work_element_count, thread_per_block, block_count),
            <<"getNumMultiProcessors", "maxThreadsPerMultiProcessor",
              "maxThreadsPerBlock">>,
            \/ MulOvf(d.NumMultiProcessors, d.maxThreadsPerMultiProcessor)
            \/ DivUpOvf(physical_thread_count, thread_per_block)
            \/ DivUpOvf(work_element_count, thread_per_block),
            thread_per_block = 0)

\* GetGpuLaunchConfigFixedBlockSize; o is the answer of
\* cudaOccupancyMaxActiveBlocksPerMultiprocessor (o.block_count blocks per
\* multiprocessor), read under CUDA only
GetGpuLaunchConfigFixedBlockSize(work_element_count, d, be, o, fixed_block_size) ==
  IF ~CHECK_GT(work_element_count, 0) THEN Fatal(<<>>)
  ELSE IF be = "CUDA" THEN
    IF ~CHECK_EQ(o.err, "cudaSuccess")
    THEN Fatal(<<"OccupancyMaxActiveBlocksPerMultiprocessor">>)
    ELSE
      LET block_count ==
            Min(Mul32(o.block_count, d.NumMultiProcessors),
                DivUp(work_element_count, fixed_block_size))
      IN  Ret(GpuLaunchConfig(work_element_count, fixed_block_size, block_count),
              <<"OccupancyMaxActiveBlocksPerMultiprocessor",
                "getNumMultiProcessors">>,
              \/ MulOvf(o.block_count, d.NumMultiProcessors)
              \/ DivUpOvf(work_element_count, fixed_block_size),
              fixed_block_size = 0)
  ELSE
    LET physical_thread_count ==
          Min(Mul32(d.NumMultiProcessors, d.maxThreadsPerMultiProcessor),
              work_element_count)
        thread_per_block == Min(1024, d.maxThreadsPerBlock)
        block_count ==
          Min(DivUp(physical_thread_count, thread_per_block),
              d.NumMultiProcessors)
    IN  Ret(GpuLaunchConfig(work_element_count, fixed_block_size, block_count),
            <<"getNumMultiProcessors", "maxThreadsPerMultiProcessor",
              "maxThreadsPerBlock">>,
            \/ MulOvf(d.NumMultiProcessors, d.maxThreadsPerMultiProcessor)
            \/ DivUpOvf(physical_thread_count, thread_per_block),
            thread_per_block = 0)

-----------------------------------------------------------------------------
(* struct Gpu2DLaunchConfig (= Gpu3DLaunchConfig) and the 2D/3D entry points *)

dim3(x, y, z) == <<x, y, z>>

\* a default-constructed Gpu2DLaunchConfig
Gpu2DLaunchConfig ==
  [virtual_thread_count |-> dim3(0, 0, 0),
   thread_per_block |-> dim3(0, 0, 0),
   block_count |-> dim3(0, 0, 0)]

kThreadsPerBlock == 256

\* GetGpu2DLaunchConfig with the row groups rounded up, so that one pass of
\* the grid covers the y-axis
GetGpu2DLaunchConfig_RowsRoundedUp(xdim, ydim, d) ==
  IF xdim <= 0 \/ ydim <= 0 THEN Ret(Gpu2DLaunchConfig, <<>>, FALSE, FALSE)
  ELSE
    LET block_cols == Min(xdim, kThreadsPerBlock)
        block_rows == Max(Div32(kThreadsPerBlock, block_cols), 1)
        physical_thread_count ==
          Mul32(d.NumMultiProcessors, d.maxThreadsPerMultiProcessor)
        max_blocks == Max(Div32(physical_thread_count, kThreadsPerBlock), 1)
        grid_x == Min(DivUp(xdim, block_cols), max_blocks)
        grid_y ==
          Min(Div32(max_blocks, grid_x), Max(DivUp(ydim, block_rows), 1))
    IN  Ret([virtual_thread_count |-> dim3(xdim, ydim, 1),
             thread_per_block |-> dim3(block_cols, block_rows, 1),
             block_count |-> dim3(grid_x, grid_y, 1)],
            <<"getNumMultiProcessors", "maxThreadsPerMultiProcessor">>,
            \/ MulOvf(d.NumMultiProcessors, d.maxThreadsPerMultiProcessor)
            \/ DivUpOvf(xdim, block_cols)
            \/ DivUpOvf(ydim, block_rows),
            block_cols = 0 \/ grid_x = 0 \/ block_rows = 0)

\* GetGpu2DLaunchConfig(int xdim, int ydim, const Eigen::GpuDevice& d)
GetGpu2DLaunchConfig(xdim, ydim, d) ==
  IF xdim <= 0 \/ ydim <= 0 THEN Ret(Gpu2DLaunchConfig, <<>>, FALSE, FALSE)
  ELSE
    LET block_cols == Min(xdim, kThreadsPerBlock)
        \* ok to round down here and just do more loops in the kernel
        block_rows == Max(Div32(kThreadsPerBlock, block_cols), 1)
        physical_thread_count ==
          Mul32(d.NumMultiProcessors, d.maxThreadsPerMultiProcessor)
        max_blocks == Max(Div32(physical_thread_count, kThreadsPerBlock), 1)
        grid_x == Min(DivUp(xdim, block_cols), max_blocks)
        grid_y ==
          Min(Div32(max_blocks, grid_x), Max(Div32(ydim, block_rows), 1))
    IN  Ret([virtual_thread_count |-> dim3(xdim, ydim, 1),
             thread_per_block |-> dim3(block_cols, block_rows, 1),
             block_count |-> dim3(grid_x, grid_y, 1)],
            <<"getNumMultiProcessors", "maxThreadsPerMultiProcessor">>,
            \/ MulOvf(d.NumMultiProcessors, d.maxThreadsPerMultiProcessor)
            \/ DivUpOvf(xdim, block_cols),
            block_cols = 0 \/ grid_x = 0 \/ block_rows = 0)

\* The distribution of (block_count, thread_per_block) over the axes, lines
\* 336-351 of GetGpu3DLaunchConfig
Distribute3D(xdim, ydim, zdim, d, block_count, thread_per_block, q) ==
  LET xthreadlimit == d.maxThreadsDim[1]
      ythreadlimit == d.maxThreadsDim[2]
      zthreadlimit == d.maxThreadsDim[3]
      xgridlimit == d.maxGridSize[1]
      ygridlimit == d.maxGridSize[2]
      zgridlimit == d.maxGridSize[3]
      threadsx == Min3(xdim, thread_per_block, xthreadlimit)
      threadsy ==
        Min3(ydim, Max(Div32(thread_per_block, threadsx), 1), ythreadlimit)
      threadsz ==
        Min3(zdim,
             Max(Div32(thread_per_block, Mul32(threadsx, threadsy)), 1),
             zthreadlimit)
      blocksx == Min3(block_count, DivUp(xdim, threadsx), xgridlimit)
      blocksy ==
        Min3(DivUp(block_count, blocksx), DivUp(ydim, threadsy), ygridlimit)
      blocksz ==
        Min3(DivUp(block_count, Mul32(blocksx, blocksy)),
             DivUp(zdim, threadsz), zgridlimit)
  IN  Ret([virtual_thread_count |-> dim3(xdim, ydim, zdim),
           thread_per_block |-> dim3(threadsx, threadsy, threadsz),
           block_count |-> dim3(blocksx, blocksy, blocksz)],
          q,
          \/ MulOvf(threadsx, threadsy)
          \/ DivUpOvf(xdim, threadsx)
          \/ DivUpOvf(block_count, blocksx)
          \/ DivUpOvf(ydim, threadsy)
          \/ MulOvf(blocksx, blocksy)
          \/ DivUpOvf(block_count, Mul32(blocksx, blocksy))
          \/ DivUpOvf(zdim, threadsz),
          \/ threadsx = 0
          \/ Mul32(threadsx, threadsy) = 0
          \/ blocksx = 0
          \/ threadsy = 0
          \/ Mul32(blocksx, blocksy) = 0
          \/ threadsz = 0)

\* GetGpu3DLaunchConfig(xdim, ydim, zdim, d, func, dynamic_shared_memory_size,
\* block_size_limit); o is the answer of cudaOccupancyMaxPotentialBlockSize,
\* read under CUDA only
GetGpu3DLaunchConfig(xdim, ydim, zdim, d, be, o) ==
  IF xdim <= 0 \/ ydim <= 0 \/ zdim <= 0
  THEN Ret(Gpu2DLaunchConfig, <<>>, FALSE, FALSE)
  ELSE IF be = "CUDA" THEN
    IF ~CHECK_EQ(o.err, "cudaSuccess")
    THEN Fatal(<<"GetDevice", "GetDeviceProperties",
                 "OccupancyMaxPotentialBlockSize">>)
    ELSE Distribute3D(xdim, ydim, zdim, d, o.block_count, o.thread_per_block,
                      <<"GetDevice", "GetDeviceProperties",
                        "OccupancyMaxPotentialBlockSize">>)
  ELSE
    LET physical_thread_count ==
          Mul32(d.NumMultiProcessors, d.maxThreadsPerMultiProcessor)
        thread_per_block == Min(1024, d.maxThreadsPerBlock)
        block_count ==
          Min(DivUp(physical_thread_count, thread_per_block),
              d.NumMultiProcessors)
        r == Distribute3D(xdim, ydim, zdim, d, block_count, thread_per_block,
                          <<"GetDevice", "GetDeviceProperties",
                            "getNumMultiProcessors",
                            "maxThreadsPerMultiProcessor",
                            "maxThreadsPerBlock">>)
    IN  [r EXCEPT
           !.overflow =
             \/ @
             \/ MulOvf(d.NumMultiProcessors, d.maxThreadsPerMultiProcessor)
             \/ DivUpOvf(physical_thread_count, thread_per_block),
           !.divzero = @ \/ thread_per_block = 0]

\* GetGpu2DLaunchConfig(xdim, ydim, d, func, dynamic_shared_memory_size,
\* block_size_limit)
GetGpu2DLaunchConfigOcc(xdim, ydim, d, be, o) ==
  GetGpu3DLaunchConfig(xdim, ydim, 1, d, be, o)

-----------------------------------------------------------------------------
(* The environment: build, device, occupancy answers, arguments *)

\* #if GOOGLE_CUDA ... #elif TENSORFLOW_USE_ROCM
Backends == {"CUDA", "ROCM"}

Device(mp, tpm, mtpb, tdim, gdim) ==
  [NumMultiProcessors |-> mp, maxThreadsPerMultiProcessor |-> tpm,
   maxThreadsPerBlock |-> mtpb, maxThreadsDim |-> tdim, maxGridSize |-> gdim]

\* The devices: every reported number is at least 1, and the product of the
\* multiprocessor count and the threads per multiprocessor is far inside the
\* int range, as on the hardware.
Devices ==
  { Device(10, 2048, 1024, <<1024, 1024, 64>>, <<IntMax, IntMax, IntMax>>),
    Device(80, 2048, 2048, <<1024, 1024, 64>>, <<IntMax, 65535, 65535>>),
    Device(2, 4, 2, <<2, 2, 1>>, <<2, 3, 1>>),
    Device(1, 1, 1, <<1, 1, 1>>, <<1, 1, 1>>) }

NoOcc == [err |-> "none", block_count |-> 0, thread_per_block |-> 0]

OccFailed ==
  [err |-> "cudaErrorInvalidValue", block_count |-> 0, thread_per_block |-> 0]

\* cudaOccupancyMaxPotentialBlockSize: a failure, or a pair of positive numbers
OccAnswers ==
  { [err |-> "cudaSuccess", block_count |-> b, thread_per_block |-> t] :
      b \in (1 .. MaxOcc) \cup {13}, t \in (1 .. MaxOcc) \cup {1024} }
  \cup {OccFailed}

\* cudaOccupancyMaxActiveBlocksPerMultiprocessor: a failure, or the number of
\* blocks of the fixed size that fit on one multiprocessor (possibly none)
ActiveAnswers ==
  { [err |-> "cudaSuccess", block_count |-> b, thread_per_block |-> 0] :
      b \in (0 .. MaxOcc) \cup {16} }
  \cup {OccFailed}

NoUB == [overflow |-> "none", divzero |-> "none"]

UBOutcomes == [overflow : {"wrap", "trap"}, divzero : {"zero", "trap"}]

\* the arguments the callers pass
Extents == (-1 .. MaxDim) \cup {100, 4096, 10240, IntMax}

WorkCounts == (-1 .. MaxDim) \cup {1024, 1025, 2048, 20481, IntMax}

FixedBlockSizes == (1 .. MaxDim) \cup {256, 1024, 2048}

DivUpArgs == (1 .. MaxDim) \cup {1024, IntMax - 1, IntMax}

Calls ==
  { [fn |-> "DivUp", args |-> <<a, b>>] : a \in DivUpArgs, b \in DivUpArgs }
  \cup { [fn |-> "GetGpuLaunchConfig", args |-> <<w>>] : w \in WorkCounts }
  \cup { [fn |-> "GetGpuLaunchConfigOcc", args |-> <<w>>] : w \in WorkCounts }
  \cup { [fn |-> "GetGpuLaunchConfigFixedBlockSize", args |-> <<w, f>>] :
           w \in WorkCounts, f \in FixedBlockSizes }
  \cup { [fn |-> "GetGpu2DLaunchConfig", args |-> <<x, y>>] :
           x \in Extents, y \in Extents }
  \cup { [fn |-> "GetGpu3DLaunchConfig", args |-> <<x, y, z>>] :
           x \in Extents, y \in Extents, z \in Extents }
  \cup { [fn |-> "GetGpu2DLaunchConfigOcc", args |-> <<x, y>>] :
           x \in Extents, y \in Extents }

-----------------------------------------------------------------------------
(* The state machine: one call *)

Init ==
  /\ backend \in Backends
  /\ dev \in Devices
  /\ call \in Calls
  /\ pc = "start"
  /\ occ = NoOcc
  /\ ub = NoUB
  /\ queries = <<>>
  /\ config = NoConfig

OccupancyQueries ==
  {"OccupancyMaxPotentialBlockSize", "OccupancyMaxActiveBlocksPerMultiprocessor"}

Asked(r) == \E i \in DOMAIN r.queries : r.queries[i] \in OccupancyQueries

\* the undefined behaviour of the call r ends it: the outcome u traps
Trapped(r, u) ==
  \/ r.overflow /\ u.overflow = "trap"
  \/ r.divzero /\ u.divzero = "trap"

\* The call ends as r says, with the occupancy answer o and the outcome u of
\* its undefined behaviour, if it has any.
Finish(r, o, u) ==
  LET fatal == r.status = "fatal" \/ Trapped(r, u)
  IN  /\ pc' = IF fatal THEN "fatal" ELSE "returned"
      /\ config' = IF fatal THEN NoConfig ELSE r.config
      /\ queries' = r.queries
      /\ occ' = IF Asked(r) THEN o ELSE NoOcc
      /\ ub' = [overflow |-> IF r.overflow THEN u.overflow ELSE "none",
                divzero |-> IF r.divzero THEN u.divzero ELSE "none"]
      /\ UNCHANGED <<backend, dev, call>>

CallDivUp ==
  /\ pc = "start"
  /\ call.fn = "DivUp"
  /\ \E u \in UBOutcomes :
       Finish(Ret(DivUp(call.args[1], call.args[2]), <<>>,
                  DivUpOvf(call.args[1], call.args[2]), call.args[2] = 0),
              NoOcc, u)

CallGetGpuLaunchConfig ==
  /\ pc = "start"
  /\ call.fn = "GetGpuLaunchConfig"
  /\ \E u \in UBOutcomes :
       Finish(GetGpuLaunchConfig(call.args[1], dev), NoOcc, u)

CallGetGpuLaunchConfigOcc ==
  /\ pc = "start"
  /\ call.fn = "GetGpuLaunchConfigOcc"
  /\ \E o \in OccAnswers, u \in UBOutcomes :
       Finish(GetGpuLaunchConfigOcc(call.args[1], dev, backend, o), o, u)

CallGetGpuLaunchConfigFixedBlockSize ==
  /\ pc = "start"
  /\ call.fn = "GetGpuLaunchConfigFixedBlockSize"
  /\ \E o \in ActiveAnswers, u \in UBOutcomes :
       Finish(GetGpuLaunchConfigFixedBlockSize(call.args[1], dev, backend, o,
                                               call.args[2]), o, u)

CallGetGpu2DLaunchConfig ==
  /\ pc = "start"
  /\ call.fn = "GetGpu2DLaunchConfig"
  /\ \E u \in UBOutcomes :
       Finish(GetGpu2DLaunchConfig(call.args[1], call.args[2], dev), NoOcc, u)

CallGetGpu3DLaunchConfig ==
  /\ pc = "start"
  /\ call.fn = "GetGpu3DLaunchConfig"
  /\ \E o \in OccAnswers, u \in UBOutcomes :
       Finish(GetGpu3DLaunchConfig(call.args[1], call.args[2], call.args[3],
                                   dev, backend, o), o, u)

CallGetGpu2DLaunchConfigOcc ==
  /\ pc = "start"
  /\ call.fn = "GetGpu2DLaunchConfigOcc"
  /\ \E o \in OccAnswers, u \in UBOutcomes :
       Finish(GetGpu2DLaunchConfigOcc(call.args[1], call.args[2], dev,
                                      backend, o), o, u)

Next ==
  \/ CallDivUp
  \/ CallGetGpuLaunchConfig
  \/ CallGetGpuLaunchConfigOcc
  \/ CallGetGpuLaunchConfigFixedBlockSize
  \/ CallGetGpu2DLaunchConfig
  \/ CallGetGpu3DLaunchConfig
  \/ CallGetGpu2DLaunchConfigOcc

Spec == Init /\ [][Next]_vars

-----------------------------------------------------------------------------
(* Vocabulary of the properties *)

\* the least k with k * b >= a, for b > 0, in unbounded integers
CeilDiv(a, b) == ((a - 1) \div b) + 1

OneDim ==
  {"GetGpuLaunchConfig", "GetGpuLaunchConfigOcc",
   "GetGpuLaunchConfigFixedBlockSize"}

MultiDim ==
  {"GetGpu2DLaunchConfig", "GetGpu3DLaunchConfig", "GetGpu2DLaunchConfigOcc"}

Returned(fn) == pc = "returned" /\ call.fn = fn

\* the extents of a 2D/3D call, the occupancy-aware 2D call having z = 1
ExtentsOf(c) == IF Len(c.args) = 3 THEN c.args ELSE <<c.args[1], c.args[2], 1>>

AllPositive(c) == \A i \in DOMAIN c.args : c.args[i] > 0

\* the call computed without undefined behaviour
Defined == ub = NoUB

-----------------------------------------------------------------------------
(* C10: DivUp *)

\* C10: for all positive ints a and b, the value r that DivUp(a, b) returns
\* satisfies (r - 1) * b < a <= r * b, also when a + b - 1 exceeds the int
\* range.  The two inequalities are stated by division, r - 1 <= (a - 1) div b
\* and r >= (a - 1) div b + 1, which is the same for b > 0 and needs no
\* product beyond the int range.
C10_DivUpIsCeiling ==
  Returned("DivUp") =>
    LET a == call.args[1]
        b == call.args[2]
    IN  /\ config - 1 <= (a - 1) \div b
        /\ config >= ((a - 1) \div b) + 1

\* Where a + b stays inside the int range DivUp is the ceiling of a / b.
Aux_DivUpDefined ==
  Returned("DivUp") /\ Defined => config = CeilDiv(call.args[1], call.args[2])

-----------------------------------------------------------------------------
(* C1, C2, C3, C5: the 1D entry points *)

\* C1: GetGpuLaunchConfigFixedBlockSize, in the CUDA and in the ROCm build,
\* for every work_element_count > 0 and fixed_block_size > 0: the returned
\* block_count is at most ceil_div(work_element_count, fixed_block_size) and the
\* returned thread_per_block is fixed_block_size.
C1_FixedBlockSizeCovers ==
  Returned("GetGpuLaunchConfigFixedBlockSize") =>
    /\ config.block_count <= CeilDiv(call.args[1], call.args[2])
    /\ config.thread_per_block = call.args[2]

\* The CUDA branch of GetGpuLaunchConfigFixedBlockSize does clamp.
Aux_FixedBlockSizeCoversCuda ==
  Returned("GetGpuLaunchConfigFixedBlockSize") /\ backend = "CUDA" =>
    /\ config.block_count <= CeilDiv(call.args[1], call.args[2])
    /\ config.thread_per_block = call.args[2]

\* C2: the occupancy-aware GetGpuLaunchConfig, for every work_element_count > 0
\* and every occupancy answer (occ_blocks, occ_threads) with occ_threads >= 1,
\* returns virtual_thread_count = work_element_count, thread_per_block =
\* occ_threads and block_count = min(occ_blocks, ceil_div(work_element_count,
\* occ_threads)).
C2_OccupancyClamped ==
  Returned("GetGpuLaunchConfigOcc") /\ occ.err = "cudaSuccess"
                                   /\ occ.thread_per_block >= 1 =>
    /\ config.virtual_thread_count = call.args[1]
    /\ config.thread_per_block = occ.thread_per_block
    /\ config.block_count =
         Min(occ.block_count, CeilDiv(call.args[1], occ.thread_per_block))

\* C2 holds of every call whose arithmetic stays inside the int range.
Aux_OccupancyClampedDefined == Defined => C2_OccupancyClamped

\* C3: the heuristic GetGpuLaunchConfig, for every work_element_count n > 0 and
\* every device: thread_per_block <= min(1024, max_threads_per_block),
\* 1 <= block_count <= multiprocessor_count and virtual_thread_count = n.
C3_HeuristicBounds ==
  Returned("GetGpuLaunchConfig") =>
    /\ config.thread_per_block <= Min(1024, dev.maxThreadsPerBlock)
    /\ 1 <= config.block_count
    /\ config.block_count <= dev.NumMultiProcessors
    /\ config.virtual_thread_count = call.args[1]

\* C3's case: the work needs more blocks than the device has multiprocessors,
\* and the count is capped.
C3_Witness ==
  /\ Returned("GetGpuLaunchConfig")
  /\ call.args[1] > 1024 * dev.NumMultiProcessors
  /\ dev.NumMultiProcessors > 1
  /\ config.block_count = dev.NumMultiProcessors

\* C5: in the three 1D entry points a work_element_count <= 0 ends in the fatal
\* state before any device or occupancy query and returns no configuration; a
\* failed occupancy query ends in the fatal state, returns no configuration
\* and is not retried (it was asked once).
C5_OneDimFatal ==
  pc # "start" /\ call.fn \in OneDim =>
    /\ call.args[1] <= 0 =>
         pc = "fatal" /\ queries = <<>> /\ config = NoConfig
    /\ occ = OccFailed =>
         /\ pc = "fatal"
         /\ config = NoConfig
         /\ Cardinality({i \in DOMAIN queries : queries[i] \in OccupancyQueries}) = 1

\* C5's case: the occupancy query of a 1D call with a positive count failed.
C5_Witness ==
  /\ pc = "fatal"
  /\ call.fn \in OneDim
  /\ call.args[1] > 0
  /\ occ = OccFailed

-----------------------------------------------------------------------------
(* C4, C6, C7: the degenerate input and the 3D distribution *)

NonZero(d3) == d3[1] # 0 /\ d3[2] # 0 /\ d3[3] # 0

\* C4: in the heuristic GetGpu2DLaunchConfig, GetGpu3DLaunchConfig and the
\* occupancy-aware GetGpu2DLaunchConfig an extent <= 0 makes the call return
\* the all-zero configuration with no query and no fatal check; and every
\* configuration returned for all-positive extents has no zero component.
C4_DegenerateSentinel ==
  pc # "start" /\ call.fn \in MultiDim =>
    /\ ~AllPositive(call) =>
         /\ pc = "returned"
         /\ queries = <<>>
         /\ config = [virtual_thread_count |-> <<0, 0, 0>>,
                      thread_per_block |-> <<0, 0, 0>>,
                      block_count |-> <<0, 0, 0>>]
    /\ AllPositive(call) /\ pc = "returned" =>
         /\ NonZero(config.virtual_thread_count)
         /\ NonZero(config.thread_per_block)
         /\ NonZero(config.block_count)

\* C4 holds of every call whose arithmetic stays inside the int range.
Aux_DegenerateSentinelDefined == Defined => C4_DegenerateSentinel

\* the configuration C6 states for extents e, occupancy answer (B, T) and
\* device d, in unbounded integers
Greedy3D(e, B, T, d) ==
  LET tx == Min3(e[1], T, d.maxThreadsDim[1])
      ty == Min3(e[2], Max(T \div tx, 1), d.maxThreadsDim[2])
      tz == Min3(e[3], Max(T \div (tx * ty), 1), d.maxThreadsDim[3])
      bx == Min3(B, CeilDiv(e[1], tx), d.maxGridSize[1])
      by == Min3(CeilDiv(B, bx), CeilDiv(e[2], ty), d.maxGridSize[2])
      bz == Min3(CeilDiv(B, bx * by), CeilDiv(e[3], tz), d.maxGridSize[3])
  IN  [virtual_thread_count |-> e,
       thread_per_block |-> <<tx, ty, tz>>,
       block_count |-> <<bx, by, bz>>]

\* C6: for all positive extents, occupancy answer (B, T) and device limits,
\* GetGpu3DLaunchConfig returns the greedy x -> y -> z distribution; the
\* extents (4096, 4096, 100) with (B, T) = (13, 1024), thread limits
\* (1024, 1024, 64) and grid limits 2^31 - 1 give threads (1024, 1, 1) and
\* blocks (4, 4, 1); the occupancy-aware 2D entry point returns the 3D result
\* for z = 1, whose z thread and block components are 1.
C6_GreedyDistribution ==
  /\ pc = "returned" /\ call.fn \in {"GetGpu3DLaunchConfig", "GetGpu2DLaunchConfigOcc"}
       /\ AllPositive(call) /\ occ.err = "cudaSuccess" =>
         config = Greedy3D(ExtentsOf(call), occ.block_count,
                           occ.thread_per_block, dev)
  /\ Returned("GetGpu3DLaunchConfig") /\ call.args = <<4096, 4096, 100>>
       /\ occ.err = "cudaSuccess" /\ occ.block_count = 13
       /\ occ.thread_per_block = 1024
       /\ dev.maxThreadsDim = <<1024, 1024, 64>>
       /\ dev.maxGridSize = <<IntMax, IntMax, IntMax>> =>
         /\ config.thread_per_block = <<1024, 1, 1>>
         /\ config.block_count = <<4, 4, 1>>
  /\ Returned("GetGpu2DLaunchConfigOcc") /\ AllPositive(call) =>
         /\ config.thread_per_block[3] = 1
         /\ config.block_count[3] = 1

\* C6 holds of every call whose arithmetic stays inside the int range.
Aux_GreedyDistributionDefined == Defined => C6_GreedyDistribution

\* the (block_count, thread_per_block) GetGpu3DLaunchConfig distributes: the
\* occupancy answer under CUDA, the heuristic pair under ROCm
BudgetThreads ==
  IF backend = "CUDA" THEN occ.thread_per_block
  ELSE Min(1024, dev.maxThreadsPerBlock)

\* C7: for all positive extents, every occupancy answer with block_count >= 1
\* and threads_per_block >= 1 and all limits >= 1, every thread_per_block
\* component is between 1 and the device's thread limit of its dimension,
\* every block_count component between 1 and the grid limit of its dimension,
\* and threads_x * threads_y * threads_z <= threads_per_block.
C7_WithinHardwareLimits ==
  pc = "returned" /\ call.fn \in {"GetGpu3DLaunchConfig", "GetGpu2DLaunchConfigOcc"}
    /\ AllPositive(call) =>
      /\ \A i \in 1 .. 3 :
           /\ 1 <= config.thread_per_block[i]
           /\ config.thread_per_block[i] <= dev.maxThreadsDim[i]
           /\ 1 <= config.block_count[i]
           /\ config.block_count[i] <= dev.maxGridSize[i]
      /\ config.thread_per_block[1] * config.thread_per_block[2]
           * config.thread_per_block[3] <= BudgetThreads

\* C7 holds of every call whose arithmetic stays inside the int range.
Aux_WithinHardwareLimitsDefined == Defined => C7_WithinHardwareLimits

-----------------------------------------------------------------------------
(* C8, C9: the heuristic 2D entry point *)

\* block_rows and max_blocks as C8 and C9 state them, in unbounded integers
BlockRows(xdim) == Max(256 \div Min(xdim, 256), 1)

MaxBlocks(d) ==
  Max((d.NumMultiProcessors * d.maxThreadsPerMultiProcessor) \div 256, 1)

\* C8: for all positive (xdim, ydim) and every device, with max_blocks =
\* max(physical_thread_count div 256, 1): grid_x >= 1, grid_y >= 1,
\* grid_x * grid_y <= max_blocks and grid_y <= max(ydim div block_rows, 1);
\* (10240, 10240) with physical_thread_count 20480 gives thread_per_block
\* (256, 1, 1) and block_count (40, 2, 1).
C8_ResidentBlockBudget ==
  Returned("GetGpu2DLaunchConfig") /\ AllPositive(call) =>
    LET grid_x == config.block_count[1]
        grid_y == config.block_count[2]
    IN  /\ grid_x >= 1
        /\ grid_y >= 1
        /\ grid_x * grid_y <= MaxBlocks(dev)
        /\ grid_y <= Max(call.args[2] \div BlockRows(call.args[1]), 1)
        /\ call.args = <<10240, 10240>>
             /\ dev.NumMultiProcessors * dev.maxThreadsPerMultiProcessor = 20480 =>
               /\ config.thread_per_block = <<256, 1, 1>>
               /\ config.block_count = <<40, 2, 1>>

\* C8 holds of every call whose arithmetic stays inside the int range.
Aux_ResidentBlockBudgetDefined == Defined => C8_ResidentBlockBudget

\* y is a multiple of m
IsMultiple(y, m) == m # 0 /\ y % Abs(m) = 0

\* the rows one pass of the launched grid covers fall short of ydim; a
\* negative component is an unsigned count above 2^31 - 1 and falls short of
\* nothing
UnderCoversY(cfg, ydim) ==
  /\ cfg.block_count[2] >= 0
  /\ cfg.thread_per_block[2] >= 0
  /\ cfg.block_count[2] * cfg.thread_per_block[2] < ydim

\* C9, as stated: for all positive (xdim, ydim) and every device, whenever
\* ydim is not a multiple of thread_per_block.y * block_count.y, then
\* block_count.y * thread_per_block.y < ydim.
C9_UnderCoversWheneverNotMultiple ==
  Returned("GetGpu2DLaunchConfig") /\ AllPositive(call) =>
    (~IsMultiple(call.args[2],
                 config.thread_per_block[2] * config.block_count[2])
       => UnderCoversY(config, call.args[2]))

\* C9, amended: for all positive (xdim, ydim) with ydim >= block_rows
\* (thread_per_block.y) and every device, whenever ydim is not a multiple of
\* thread_per_block.y * block_count.y, then block_count.y * thread_per_block.y
\* < ydim.
C9_UnderCoversWhenRowsFit ==
  Returned("GetGpu2DLaunchConfig") /\ AllPositive(call)
    /\ call.args[2] >= config.thread_per_block[2] =>
    (~IsMultiple(call.args[2],
                 config.thread_per_block[2] * config.block_count[2])
       => UnderCoversY(config, call.args[2]))

\* C9's case: block_rows is 2 or more, ydim holds at least one row group and
\* is no multiple of what the grid covers.
C9_Witness ==
  /\ Returned("GetGpu2DLaunchConfig")
  /\ AllPositive(call)
  /\ config.thread_per_block[2] >= 2
  /\ call.args[2] >= config.thread_per_block[2]
  /\ ~IsMultiple(call.args[2],
                 config.thread_per_block[2] * config.block_count[2])
  /\ UnderCoversY(config, call.args[2])

====
